---- MODULE Spec2Model ----
(***************************************************************************)
(* The movie catalogue API: list, get, create, update and delete over a    *)
(* relational store (src/routes/movies.py) with the request and response   *)
(* schemas of src/schemas/movies.py.                                       *)
(*                                                                         *)
(* Spec      every request runs from validation to response in one step.   *)
(* SpecConc  requests of several clients interleave at the handlers'       *)
(*           awaits (one storage round trip per step).                     *)
(***************************************************************************)
EXTENDS Integers, Sequences, FiniteSets, TLC

VARIABLES
    movies,     \* the movies table: a set of rows
    nextId,     \* the identifier the storage gives the next inserted row
    resp,       \* the last response sent
    removed,    \* Spec, history: the ids remove_film answered 204 for
    sess,       \* SpecConc: per client, the handler in flight
    note        \* history: of the request the last response answers

vars == <<movies, nextId, resp, removed, sess, note>>

---------------------------------------------------------------------------
(* Bounds of the model *)

MaxMovies == 3      \* rows ever inserted
MaxPage == 3        \* largest page asked for
MaxPerPage == 2     \* largest small per_page asked for
Today == 0          \* the day datetime.date.today() answers

(* Constants of the program *)

NameMaxLen == 255
MaxDaysAhead == 365
ScoreMin == 0
ScoreMax == 100
PageMin == 1
PerPageMin == 1
PerPageMax == 20

---------------------------------------------------------------------------
(* Values *)

None == << >>
Some(x) == << x >>

RECURSIVE Rep(_, _)
Rep(s, n) ==
    IF n = 0 THEN ""
    ELSE LET half == Rep(s, n \div 2)
         IN  IF n % 2 = 0 THEN half \o half ELSE half \o half \o s

Min(a, b) == IF a < b THEN a ELSE b

\* class MovieStatusEnum
MovieStatusEnum == {"Released", "Post Production", "In Production"}

\* the columns of the movies table (§3 Movie attributes, country reference)
model_columns ==
    {"id", "name", "date", "score", "overview", "status", "budget", "revenue",
     "country_id"}

\* the countries table: the reference rows a movie's country_id may name
countries == [i \in {1} |-> "US"]

---------------------------------------------------------------------------
(* src/schemas/movies.py: MovieCreateUpdateSchema *)

\* the fields declared without a default: a payload lacking one is rejected
RequiredFields ==
    {"name", "date", "score", "overview", "status", "budget", "revenue",
     "country_id"}

\* the fields declared with a default, and the default
FieldDefaults ==
    [country |-> None, genre_ids |-> << >>, actor_ids |-> << >>,
     languages |-> << >>]

name_max_length(v) == ~(Len(v) > NameMaxLen)

date_within_one_year(v) == ~(v > Today + MaxDaysAhead)

\* mutant: the upper bound is off by one
score_upper_bound_off_by_one(v) == ScoreMin <= v /\ v <= ScoreMax + 1

score_between_0_and_100(v) == ScoreMin <= v /\ v <= ScoreMax

non_negative_budget(v) == ~(v < 0)

non_negative_revenue(v) == ~(v < 0)

\* a request body parses into MovieCreateUpdateSchema (otherwise 422)
MovieCreateUpdateSchema(p) ==
    /\ RequiredFields \subseteq DOMAIN p
    /\ name_max_length(p.name)
    /\ date_within_one_year(p.date)
    /\ score_between_0_and_100(p.score)
    /\ p.status \in MovieStatusEnum
    /\ non_negative_budget(p.budget)
    /\ non_negative_revenue(p.revenue)
    /\ (p.country_id = None \/ Len(p.country_id) = 1)

\* film.dict(): every field, the unset ones at their defaults
Dict(p) ==
    [k \in DOMAIN p \cup DOMAIN FieldDefaults |->
        IF k \in DOMAIN p THEN p[k] ELSE FieldDefaults[k]]

\* film.dict(exclude_unset=True): the fields the caller supplied
DictExcludeUnset(p) == p

(* src/routes/movies.py: PaginationParams *)
PaginationParams(page, per_page) ==
    /\ page >= PageMin
    /\ per_page >= PerPageMin /\ per_page <= PerPageMax

---------------------------------------------------------------------------
(* Responses *)

Response(op, code, detail, body) ==
    [op |-> op, code |-> code, detail |-> detail, body |-> body]

NoResponse == Response("none", 0, "", None)

NotFoundDetail == "Movie with the given ID was not found."
ConflictDetail == "Movie with the same name and date already exists."
NoMoviesDetail == "No movies found."

\* MovieListItemSchema of a row
MovieListItemSchema(row) ==
    [id |-> row.id, name |-> row.name, date |-> row.date, score |-> row.score,
     overview |-> row.overview]

\* MovieDetailSchema declares country: CountrySchema, not optional: a row
\* without a country does not serialise
DetailSerialises(row) == row.country_id # None

\* MovieDetailSchema of a row
MovieDetailSchema(row) ==
    [id |-> row.id, name |-> row.name, date |-> row.date, score |-> row.score,
     overview |-> row.overview, status |-> row.status, budget |-> row.budget,
     revenue |-> row.revenue,
     country |-> [id |-> row.country_id[1],
                  name |-> countries[row.country_id[1]]],
     genres |-> << >>, actors |-> << >>, languages |-> << >>]

\* the response of a handler that returns a row under
\* response_model=MovieDetailSchema
DetailResponse(op, code, row) ==
    IF DetailSerialises(row)
    THEN Response(op, code, "", MovieDetailSchema(row))
    ELSE Response(op, 500, "ResponseValidationError", None)

---------------------------------------------------------------------------
(* Storage *)

\* MovieModel(**film.dict()): a row of the table's columns
MovieModel(d, id) ==
    [k \in model_columns |-> IF k = "id" THEN id ELSE d[k]]

\* mutant: the table has no uniqueness constraint
NoUniqueConstraint(rows, row) == TRUE

\* the table's uniqueness constraint on (name, date)
UniqueConstraint(rows, row) ==
    ~\E r \in rows : r.id # row.id /\ r.name = row.name /\ r.date = row.date

\* mutant: the delete is never issued
DeleteNothing(rows, row) == rows

\* db.delete(db_film) followed by commit: DELETE ... WHERE id = db_film.id
DeleteRow(rows, row) == {r \in rows : r.id # row.id}

\* select(MovieModel).where(MovieModel.id == film_id).scalar_one_or_none()
SelectById(rows, film_id) == {r \in rows : r.id = film_id}

\* mutant: the lookup also compares the score
SelectByNameDateScore(rows, film) ==
    {r \in rows :
        r.name = film.name /\ r.date = film.date /\ r.score = film.score}

\* select(MovieModel).where(name == film.name, date == film.date)
SelectByNameDate(rows, film) ==
    {r \in rows : r.name = film.name /\ r.date = film.date}

RECURSIVE OrderByIdDesc(_)
OrderByIdDesc(rows) ==
    IF rows = {} THEN << >>
    ELSE LET top == CHOOSE r \in rows : \A q \in rows : q.id <= r.id
         IN  <<top>> \o OrderByIdDesc(rows \ {top})

\* .order_by(id.desc()).offset(offset).limit(per_page)
SelectPage(rows, offset, limit) ==
    LET all == OrderByIdDesc(rows)
    IN  SubSeq(all, offset + 1, Min(Len(all), offset + limit))

\* select(func.count(MovieModel.id))
SelectCount(rows) == Cardinality(rows)

\* mutant: integer division in place of math.ceil
Floor(total, per_page) == total \div per_page

\* math.ceil(total / per_page)
Ceil(total, per_page) == (total + per_page - 1) \div per_page

---------------------------------------------------------------------------
(* src/routes/movies.py: the handlers. A handler's outcome is the table, the
   identifier counter and the response it leaves. *)

Outcome(rows, nid, r) == [movies |-> rows, nextId |-> nid, resp |-> r]

ValidationError(op) == Response(op, 422, "ValidationError", None)

\* get_film_or_404: the row, or none (the handler then answers 404)
get_film_or_404(rows, film_id) == SelectById(rows, film_id)

NotFound(op) == Response(op, 404, NotFoundDetail, None)

\* mutant: the offset is page * per_page
get_movies_films_skip_page(rows, page, per_page) ==
    SelectPage(rows, page * per_page, per_page)

\* get_movies, lines 54-62: the page query
get_movies_films(rows, page, per_page) ==
    SelectPage(rows, (page - 1) * per_page, per_page)

\* mutant: next_page is tested with > in place of >=
ListResponseNextOffByOne(films, total, page, per_page) ==
    LET total_pages == Ceil(total, per_page)
    IN  [movies |-> [i \in DOMAIN films |-> MovieListItemSchema(films[i])],
         total_pages |-> total_pages,
         total_items |-> total,
         next_page |-> IF page > total_pages THEN None ELSE Some(page + 1),
         prev_page |-> IF page > 1 THEN Some(page - 1) ELSE None]

\* get_movies, lines 70-80: the response from the page's rows and the count
MovieListResponseSchema(films, total, page, per_page) ==
    LET total_pages == Ceil(total, per_page)
    IN  [movies |-> [i \in DOMAIN films |-> MovieListItemSchema(films[i])],
         total_pages |-> total_pages,
         total_items |-> total,
         next_page |-> IF page >= total_pages THEN None ELSE Some(page + 1),
         prev_page |-> IF page > 1 THEN Some(page - 1) ELSE None]

\* get_movies, lines 64-80: after the page query, on the table as it is then
get_movies_finish(rows, films, page, per_page) ==
    IF films = << >>
    THEN Response("list", 404, NoMoviesDetail, None)
    ELSE Response("list", 200, "",
            MovieListResponseSchema(films, SelectCount(rows), page, per_page))

\* GET /movies/
get_movies(rows, page, per_page) ==
    IF ~PaginationParams(page, per_page)
    THEN ValidationError("list")
    ELSE get_movies_finish(rows, get_movies_films(rows, page, per_page),
                           page, per_page)

\* GET /movies/{movie_id}/
get_movie(rows, movie_id) ==
    LET film == get_film_or_404(rows, movie_id)
    IN  IF film = {} THEN NotFound("get")
        ELSE DetailResponse("get", 200, CHOOSE r \in film : TRUE)

\* add_film, lines 104-109: a stored movie has the payload's name and date
add_film_exists(rows, film) == SelectByNameDate(rows, film) # {}

\* add_film, lines 118-123: insert, commit, refresh, return. No handler
\* catches the storage's IntegrityError: it leaves as a 500.
add_film_commit(rows, nid, film) ==
    LET new_film == MovieModel(Dict(film), nid)
    IN  IF UniqueConstraint(rows, new_film)
        THEN Outcome(rows \cup {new_film}, nid + 1,
                     DetailResponse("create", 201, new_film))
        ELSE Outcome(rows, nid, Response("create", 500, "IntegrityError", None))

\* add_film
add_film(rows, nid, film) ==
    IF add_film_exists(rows, film)
    THEN Outcome(rows, nid, Response("create", 409, ConflictDetail, None))
    ELSE add_film_commit(rows, nid, film)

\* POST /movies/: the body is validated, then add_film runs
post_movies(rows, nid, p) ==
    IF ~MovieCreateUpdateSchema(p)
    THEN Outcome(rows, nid, ValidationError("create"))
    ELSE add_film(rows, nid, p)

\* edit_film, lines 131-136: the supplied fields that are columns, assigned
SetAttrs(db_film, film_data) ==
    [k \in DOMAIN db_film |->
        IF k \in DOMAIN film_data /\ k \in model_columns
        THEN film_data[k] ELSE db_film[k]]

\* edit_film, lines 138-140: commit writes the attributes whose value changed
\* to the row of that id (UPDATE ... WHERE id), refresh reads the row back
edit_film_commit(rows, nid, db_film, film) ==
    LET assigned == SetAttrs(db_film, DictExcludeUnset(film))
        dirty == {k \in DOMAIN db_film : assigned[k] # db_film[k]}
        cur == SelectById(rows, db_film.id)
    IN  IF cur = {}
        THEN Outcome(rows, nid,
                Response("update", 500,
                         IF dirty = {} THEN "InvalidRequestError"
                         ELSE "StaleDataError", None))
        ELSE LET row == CHOOSE r \in cur : TRUE
                 new == [k \in DOMAIN row |->
                            IF k \in dirty THEN assigned[k] ELSE row[k]]
             IN  IF ~UniqueConstraint(rows, new)
                 THEN Outcome(rows, nid,
                         Response("update", 500, "IntegrityError", None))
                 ELSE Outcome((rows \ {row}) \cup {new}, nid,
                              DetailResponse("update", 200, new))

\* edit_film
edit_film(rows, nid, film_id, film) ==
    LET db_film == get_film_or_404(rows, film_id)
    IN  IF db_film = {} THEN Outcome(rows, nid, NotFound("update"))
        ELSE edit_film_commit(rows, nid, CHOOSE r \in db_film : TRUE, film)

\* PATCH /movies/{film_id}: the body is validated, then edit_film runs
patch_movie(rows, nid, film_id, p) ==
    IF ~MovieCreateUpdateSchema(p)
    THEN Outcome(rows, nid, ValidationError("update"))
    ELSE edit_film(rows, nid, film_id, p)

\* remove_film, lines 146-148
remove_film_commit(rows, nid, db_film) ==
    Outcome(DeleteRow(rows, db_film), nid,
            Response("delete", 204, "", None))

\* DELETE /movies/{film_id}
remove_film(rows, nid, film_id) ==
    LET db_film == get_film_or_404(rows, film_id)
    IN  IF db_film = {} THEN Outcome(rows, nid, NotFound("delete"))
        ELSE remove_film_commit(rows, nid, CHOOSE r \in db_film : TRUE)

---------------------------------------------------------------------------
(* Requests *)

MaxName == Rep("x", NameMaxLen)
ValidNames == {"Inception", MaxName}
LongName == Rep("x", NameMaxLen + 1)

ValidDates == {Today + MaxDaysAhead - 1, Today + MaxDaysAhead}
LateDate == Today + MaxDaysAhead + 1

ProfileA ==
    [score |-> 87, overview |-> "A thief who steals secrets",
     status |-> "Released", budget |-> 160000000, revenue |-> 836800000]

ProfileB ==
    [score |-> ScoreMax, overview |-> "", status |-> "In Production",
     budget |-> 0, revenue |-> 0]

Payload(n, d, pr, c) ==
    [name |-> n, date |-> d, score |-> pr.score, overview |-> pr.overview,
     status |-> pr.status, budget |-> pr.budget, revenue |-> pr.revenue,
     country_id |-> c]

\* p with field k set to v
With(p, k, v) ==
    [f \in DOMAIN p \cup {k} |-> IF f = k THEN v ELSE p[f]]

\* p restricted to the fields ks
Only(p, ks) == [f \in ks |-> p[f]]

BasePayload ==
    Payload("Inception", Today + MaxDaysAhead - 1, ProfileA, Some(1))

\* every (name, date) pair, and pairs that recur with other fields differing
FullPayloads ==
    {Payload(n, d, ProfileA, Some(1)) : n \in ValidNames, d \in ValidDates}
    \cup { Payload("Inception", Today + MaxDaysAhead - 1, ProfileB, Some(1)),
           Payload("Inception", Today + MaxDaysAhead - 1, ProfileA, None),
           Payload(MaxName, Today + MaxDaysAhead, ProfileB, None) }

\* the base payload with one field out of range
BadPayloads ==
    { With(BasePayload, "name", LongName),
      With(BasePayload, "date", LateDate),
      With(BasePayload, "score", ScoreMin - 1),
      With(BasePayload, "score", ScoreMax + 1),
      With(BasePayload, "budget", -1),
      With(BasePayload, "revenue", -1),
      With(BasePayload, "status", "Cancelled") }

\* payloads supplying some of the fields only, or a relation besides
PartialPayloads ==
    { [score |-> 90],
      [name |-> MaxName],
      [score |-> ScoreMax + 1],
      Only(BasePayload, RequiredFields \ {"country_id"}),
      With(BasePayload, "genre_ids", <<"1">>) }

Payloads == FullPayloads \cup BadPayloads \cup PartialPayloads

IdInputs == 1 .. MaxMovies + 1
PageInputs == 0 .. MaxPage
PerPageInputs == (0 .. MaxPerPage) \cup {PerPageMax, PerPageMax + 1}

---------------------------------------------------------------------------
(* Spec: one request at a time *)

Clients == {"c1", "c2"}

\* a client with no request in flight
Idle == [pc |-> "idle", id |-> 0, page |-> 0, per_page |-> 0, film |-> None,
         found |-> None, between |-> {}]

\* a client whose handler waits at pc, holding what its first query found
Pending(pc, id, page, per_page, film, found) ==
    [pc |-> pc, id |-> id, page |-> page, per_page |-> per_page,
     film |-> film, found |-> found, between |-> {}]

\* what is remembered of the request a handler answered: the page asked for, the
\* commits of other clients between the handler's two queries, whether the
\* storage rejected its write, and the payload of a rejected write
Note(page, per_page, film, between, rejected) ==
    [page |-> page, per_page |-> per_page, film |-> film,
     between |-> between, rejected |-> rejected]

NoNote == Note(0, 0, None, {}, FALSE)

Init ==
    /\ movies = {}
    /\ nextId = 1
    /\ resp = NoResponse
    /\ removed = {}
    /\ sess = [c \in Clients |-> Idle]
    /\ note = NoNote

GetMovies(page, per_page) ==
    /\ resp' = get_movies(movies, page, per_page)
    /\ note' = IF PaginationParams(page, per_page)
               THEN Note(page, per_page, None, {}, FALSE) ELSE NoNote
    /\ UNCHANGED <<movies, nextId, removed, sess>>

GetMovie(movie_id) ==
    /\ resp' = get_movie(movies, movie_id)
    /\ note' = NoNote
    /\ UNCHANGED <<movies, nextId, removed, sess>>

AddFilm(p) ==
    LET o == post_movies(movies, nextId, p)
    IN  /\ o.nextId <= MaxMovies + 1
        /\ resp' = o.resp
        /\ movies' = o.movies
        /\ nextId' = o.nextId
        /\ note' = NoNote
        /\ UNCHANGED <<removed, sess>>

EditFilm(film_id, p) ==
    LET o == patch_movie(movies, nextId, film_id, p)
    IN  /\ resp' = o.resp
        /\ movies' = o.movies
        /\ nextId' = o.nextId
        /\ note' = NoNote
        /\ UNCHANGED <<removed, sess>>

RemoveFilm(film_id) ==
    LET o == remove_film(movies, nextId, film_id)
    IN  /\ resp' = o.resp
        /\ movies' = o.movies
        /\ nextId' = o.nextId
        /\ removed' = IF o.resp.code = 204 THEN removed \cup {film_id}
                      ELSE removed
        /\ note' = NoNote
        /\ UNCHANGED sess

Next ==
    \/ \E page \in PageInputs, per_page \in PerPageInputs :
          GetMovies(page, per_page)
    \/ \E movie_id \in IdInputs : GetMovie(movie_id)
    \/ \E p \in Payloads : AddFilm(p)
    \/ \E film_id \in IdInputs, p \in Payloads : EditFilm(film_id, p)
    \/ \E film_id \in IdInputs : RemoveFilm(film_id)

Spec == Init /\ [][Next]_vars

---------------------------------------------------------------------------
(* SpecConc: the handlers of several clients interleave at their awaits.
   Each step is one storage round trip on the table as it is then. *)

MaxConcMovies == 2      \* rows ever inserted under SpecConc
MaxConcPage == 2        \* largest page asked for under SpecConc

ConcPayloads ==
    { BasePayload,
      Payload("Inception", Today + MaxDaysAhead - 1, ProfileB, Some(1)),
      Payload(MaxName, Today + MaxDaysAhead - 1, ProfileA, Some(1)),
      With(BasePayload, "score", ScoreMax + 1) }

ConcIds == 1 .. MaxConcMovies
ConcPages == 1 .. MaxConcPage
ConcPerPages == 1 .. MaxConcPage

\* the other clients' list handlers between their two queries see a commit
Witnessed(c, kinds) ==
    [d \in Clients |->
        IF d # c /\ sess[d].pc = "list_count"
        THEN [sess[d] EXCEPT !.between = @ \cup kinds]
        ELSE sess[d]]

\* client c's handler answers r and ends
Answer(c, r, n) ==
    /\ resp' = r
    /\ note' = n
    /\ sess' = [sess EXCEPT ![c] = Idle]

\* client c's handler goes on to its next await
Await(c, pending) ==
    /\ sess' = [sess EXCEPT ![c] = pending]
    /\ UNCHANGED <<resp, note>>

\* get_movies, lines 54-65
ListQuery(c, page, per_page) ==
    /\ sess[c].pc = "idle"
    /\ LET films == get_movies_films(movies, page, per_page)
       IN  IF ~PaginationParams(page, per_page)
           THEN Answer(c, ValidationError("list"), NoNote)
           ELSE IF films = << >>
           THEN Answer(c, get_movies_finish(movies, films, page, per_page),
                       Note(page, per_page, None, {}, FALSE))
           ELSE Await(c, Pending("list_count", 0, page, per_page, None, films))
    /\ UNCHANGED <<movies, nextId, removed>>

\* get_movies, lines 67-80
ListCount(c) ==
    /\ sess[c].pc = "list_count"
    /\ Answer(c, get_movies_finish(movies, sess[c].found, sess[c].page,
                                   sess[c].per_page),
              Note(sess[c].page, sess[c].per_page, None, sess[c].between,
                   FALSE))
    /\ UNCHANGED <<movies, nextId, removed>>

\* get_movie
GetQuery(c, movie_id) ==
    /\ sess[c].pc = "idle"
    /\ Answer(c, get_movie(movies, movie_id), NoNote)
    /\ UNCHANGED <<movies, nextId, removed>>

\* add_film, lines 104-116
CreateQuery(c, p) ==
    /\ sess[c].pc = "idle"
    /\ IF ~MovieCreateUpdateSchema(p)
       THEN Answer(c, ValidationError("create"), NoNote)
       ELSE IF add_film_exists(movies, p)
       THEN Answer(c, Response("create", 409, ConflictDetail, None),
                   NoNote)
       ELSE Await(c, Pending("create_commit", 0, 0, 0, p, None))
    /\ UNCHANGED <<movies, nextId, removed>>

\* add_film, lines 118-123
CreateCommit(c) ==
    /\ sess[c].pc = "create_commit"
    /\ LET o == add_film_commit(movies, nextId, sess[c].film)
           rejected ==
               ~UniqueConstraint(movies, MovieModel(Dict(sess[c].film), nextId))
       IN  /\ o.nextId <= MaxConcMovies + 1
           /\ movies' = o.movies
           /\ nextId' = o.nextId
           /\ resp' = o.resp
           /\ note' = Note(0, 0, IF rejected THEN sess[c].film ELSE None, {},
                           rejected)
           /\ sess' = [Witnessed(c, IF rejected THEN {} ELSE {"insert"})
                          EXCEPT ![c] = Idle]
    /\ UNCHANGED removed

\* edit_film, line 130
EditQuery(c, film_id, p) ==
    /\ sess[c].pc = "idle"
    /\ LET db_film == get_film_or_404(movies, film_id)
       IN  IF ~MovieCreateUpdateSchema(p)
           THEN Answer(c, ValidationError("update"),
                       NoNote)
           ELSE IF db_film = {}
           THEN Answer(c, NotFound("update"), NoNote)
           ELSE Await(c, Pending("update_commit", film_id, 0, 0, p,
                                 CHOOSE r \in db_film : TRUE))
    /\ UNCHANGED <<movies, nextId, removed>>

\* edit_film, lines 131-140
EditCommit(c) ==
    /\ sess[c].pc = "update_commit"
    /\ LET o == edit_film_commit(movies, nextId, sess[c].found, sess[c].film)
       IN  /\ movies' = o.movies
           /\ Answer(c, o.resp,
                     Note(0, 0, None, {}, o.resp.detail = "IntegrityError"))
    /\ UNCHANGED <<nextId, removed>>

\* remove_film, line 145
RemoveQuery(c, film_id) ==
    /\ sess[c].pc = "idle"
    /\ LET db_film == get_film_or_404(movies, film_id)
       IN  IF db_film = {}
           THEN Answer(c, NotFound("delete"), NoNote)
           ELSE Await(c, Pending("delete_commit", film_id, 0, 0, None,
                                 CHOOSE r \in db_film : TRUE))
    /\ UNCHANGED <<movies, nextId, removed>>

\* remove_film, lines 146-148
RemoveCommit(c) ==
    /\ sess[c].pc = "delete_commit"
    /\ LET o == remove_film_commit(movies, nextId, sess[c].found)
       IN  /\ movies' = o.movies
           /\ resp' = o.resp
           /\ note' = NoNote
           /\ sess' = [Witnessed(c, IF o.movies = movies THEN {}
                                    ELSE {"delete"})
                          EXCEPT ![c] = Idle]
    /\ UNCHANGED <<nextId, removed>>

NextConc ==
    \E c \in Clients :
        \/ \E page \in ConcPages, per_page \in ConcPerPages :
              ListQuery(c, page, per_page)
        \/ ListCount(c)
        \/ \E movie_id \in ConcIds : GetQuery(c, movie_id)
        \/ \E p \in ConcPayloads : CreateQuery(c, p)
        \/ CreateCommit(c)
        \/ \E film_id \in ConcIds, p \in ConcPayloads : EditQuery(c, film_id, p)
        \/ EditCommit(c)
        \/ \E film_id \in ConcIds : RemoveQuery(c, film_id)
        \/ RemoveCommit(c)

SpecConc == Init /\ [][NextConc]_vars

---------------------------------------------------------------------------
(* Claims *)

Ids(rows) == {r.id : r \in rows}

SamePair(a, b) == a.name = b.name /\ a.date = b.date

\* the content fields of a movie
ContentFields ==
    {"name", "date", "score", "overview", "status", "budget", "revenue"}

\* the value v supplied for field k is in the range §4.3 gives that field
InRange(k, v) ==
    CASE k = "name" -> Len(v) <= NameMaxLen
      [] k = "date" -> v <= Today + MaxDaysAhead
      [] k = "score" -> ScoreMin <= v /\ v <= ScoreMax
      [] k = "budget" -> v >= 0
      [] k = "revenue" -> v >= 0
      [] k = "status" -> v \in MovieStatusEnum
      [] OTHER -> TRUE

AllInRange(p) == \A k \in DOMAIN p : InRange(k, p[k])

\* C1: no two stored movies have the same (name, date) pair, in every state
\* reached by create, update and delete requests from the empty store.
C1_UniqueNameDate ==
    \A a, b \in movies : SamePair(a, b) => a = b

\* an update that would have given a second movie the pair of another was
\* turned down, with two movies stored
C1_Witness ==
    /\ resp.op = "update" /\ resp.detail = "IntegrityError"
    /\ Cardinality(movies) >= 2

\* C2: a create whose (name, date) is that of a stored movie is answered 409
\* with the conflict message, whatever its other fields, and the store is
\* left as it was.
C2_DuplicateCreateConflicts ==
    [][\A p \in Payloads :
          ( /\ resp'.op = "create"
            /\ MovieCreateUpdateSchema(p)
            /\ \E r \in movies : SamePair(r, p)
            /\ AddFilm(p) )
          => ( /\ resp'.op = "create" /\ resp'.code = 409
               /\ resp'.detail = ConflictDetail
               /\ movies' = movies /\ nextId' = nextId )]_vars

\* a create was answered 409 for the pair of a stored movie
C2_Witness ==
    /\ resp.op = "create" /\ resp.code = 409
    /\ movies # {}

\* C3 as claimed: a create that passes validation and has a new (name, date),
\* its country_id null included, adds exactly one movie with the supplied
\* fields and a fresh identifier, leaves the others, and answers 201 with
\* the detail view of the new record.
C3_CreateAlways201 ==
    [][\A p \in Payloads :
          ( /\ resp'.op = "create"
            /\ MovieCreateUpdateSchema(p)
            /\ ~\E r \in movies : SamePair(r, p)
            /\ AddFilm(p) )
          => ( /\ resp'.op = "create" /\ resp'.code = 201
               /\ \E row \in movies' :
                     /\ row.id \notin Ids(movies)
                     /\ movies' = movies \cup {row}
                     /\ \A k \in ContentFields : row[k] = p[k]
                     /\ resp'.body.id = row.id
                     /\ \A k \in ContentFields : resp'.body[k] = row[k] )]_vars

\* C4 as claimed: an update of a stored movie with any subset of the fields,
\* each in range, is answered 200, sets exactly the supplied fields and
\* leaves the other fields and the other movies as they were.
C4_PartialUpdate200 ==
    [][\A film_id \in IdInputs, p \in Payloads :
          ( /\ resp'.op = "update"
            /\ film_id \in Ids(movies)
            /\ DOMAIN p \subseteq RequiredFields
            /\ AllInRange(p)
            /\ EditFilm(film_id, p) )
          => ( /\ resp'.op = "update" /\ resp'.code = 200
               /\ \E old \in movies, new \in movies' :
                     /\ old.id = film_id /\ new.id = film_id
                     /\ movies' = (movies \ {old}) \cup {new}
                     /\ \A k \in DOMAIN old :
                           new[k] = IF k \in DOMAIN p THEN p[k] ELSE old[k] )
    ]_vars

\* C5: once remove_film has answered 204 for an id, get-by-id answers the 404
\* not-found error for it, and no list page holds it, in every later state.
C5_RemovedStaysGone ==
    \A m \in removed :
        /\ get_movie(movies, m).code = 404
        /\ get_movie(movies, m).detail = NotFoundDetail
        /\ \A page \in PageInputs, per_page \in PerPageInputs :
              LET r == get_movies(movies, page, per_page)
              IN  r.code = 200 =>
                     \A i \in DOMAIN r.body.movies : r.body.movies[i].id # m

\* a movie was created after another was removed
C5_Witness ==
    /\ removed # {}
    /\ resp.op = "create" /\ resp.code = 201
    /\ \E r \in movies : \E m \in removed : r.id > m

\* the row at position i of the table ordered by identifier, largest first
Ranked(rows, i) ==
    CHOOSE r \in rows : Cardinality({q \in rows : q.id > r.id}) = i - 1

\* C6: a list request answered 200 has total_items = the number of stored
\* movies, total_pages = ceil(total_items / per_page), next_page = page + 1
\* when page < total_pages, prev_page = page - 1 when page > 1, and the
\* movies at positions (page-1)*per_page + 1 ... of the table ordered by
\* identifier descending, at most per_page of them.
C6_ListResponse ==
    (resp.op = "list" /\ resp.code = 200)
    => LET b == resp.body
           page == note.page
           per_page == note.per_page
           n == Cardinality(movies)
           skip == (page - 1) * per_page
       IN  /\ b.total_items = n
           /\ b.total_pages * per_page >= n
           /\ (b.total_pages - 1) * per_page < n
           /\ b.next_page =
                 IF page < b.total_pages THEN Some(page + 1) ELSE None
           /\ b.prev_page = IF page > 1 THEN Some(page - 1) ELSE None
           /\ Len(b.movies) = Min(per_page, n - skip)
           /\ \A i \in DOMAIN b.movies :
                 LET row == Ranked(movies, skip + i)
                 IN  b.movies[i] =
                        [id |-> row.id, name |-> row.name, date |-> row.date,
                         score |-> row.score, overview |-> row.overview]

\* a page in the middle was listed: it has a page before and a page after
C6_Witness ==
    /\ resp.op = "list" /\ resp.code = 200
    /\ resp.body.next_page # None /\ resp.body.prev_page # None

\* the answer to a valid list request, against the store it ran on
C7_Answer ==
    (resp.op = "list" /\ PaginationParams(note.page, note.per_page))
    => IF (note.page - 1) * note.per_page >= Cardinality(movies)
       THEN resp.code = 404 /\ resp.detail = NoMoviesDetail
       ELSE resp.code = 200 /\ Len(resp.body.movies) > 0

\* C7: a valid list request is answered 404 "No movies found." exactly when
\* (page-1)*per_page >= the number of stored movies, and otherwise 200 with
\* a non-empty movies list; a list request never changes the store.
C7_EmptyPageNotFound ==
    /\ []C7_Answer
    /\ [][resp'.op = "list" => (movies' = movies /\ nextId' = nextId)]_vars

\* a page beyond the last page of a store that holds movies
C7_Witness ==
    /\ resp.op = "list" /\ resp.code = 404 /\ resp.detail = NoMoviesDetail
    /\ movies # {}

\* C8 as claimed: a create whose write the storage rejects for uniqueness is
\* answered 409, and the store holds exactly one movie with its pair.
C8_RejectedWriteIs409 ==
    (resp.op = "create" /\ note.rejected)
    => /\ resp.code = 409
       /\ Cardinality({r \in movies : SamePair(r, note.film)}) = 1

\* the payload supplies a field out of the ranges of C9
OutOfRange(p) ==
    \E k \in DOMAIN p \cap {"name", "date", "score", "budget", "revenue"} :
        ~InRange(k, p[k])

OutOfRangePayloads == {p \in Payloads : OutOfRange(p)}

C9_StoredInRange ==
    \A r \in movies :
        ScoreMin <= r.score /\ r.score <= ScoreMax /\ r.budget >= 0
        /\ r.revenue >= 0

\* C9: a create or update whose payload has score outside [0, 100], negative
\* budget or revenue, a name over 255 characters or a date after today + 365
\* days is answered with a validation error and leaves the store as it was;
\* every stored movie has score in [0, 100], budget >= 0 and revenue >= 0.
C9_RejectedBeforeStorage ==
    /\ []C9_StoredInRange
    \* a step is answered 422 and changes nothing, or it is the step of no
    \* out-of-range create or update
    /\ [][\/ resp'.op \notin {"create", "update"}
          \/ /\ resp'.code = 422 /\ resp'.detail = "ValidationError"
             /\ movies' = movies /\ nextId' = nextId
          \/ \A p \in OutOfRangePayloads :
                /\ resp'.op = "create" => ~AddFilm(p)
                /\ resp'.op = "update" =>
                      \A film_id \in IdInputs : ~EditFilm(film_id, p)]_vars

\* an out-of-range payload was turned down with movies in the store
C9_Witness ==
    /\ resp.code = 422 /\ resp.op \in {"create", "update"}
    /\ movies # {}

\* the two inequalities of C10 for the last response
ListConsistent ==
    /\ note.page <= resp.body.total_pages
    /\ resp.body.total_items >=
          (note.page - 1) * note.per_page + Len(resp.body.movies)

\* C10 as claimed: every 200 list response has page <= total_pages and
\* total_items >= (page-1)*per_page + the number of movies returned, also
\* when creates or deletes of other clients commit between its two queries.
C10_AlwaysConsistent ==
    (resp.op = "list" /\ resp.code = 200) => ListConsistent

\* C10 amended: the same, when no delete of another client commits between
\* the page query and the count query (creates may).
C10_ConsistentWithoutDeletes ==
    (resp.op = "list" /\ resp.code = 200 /\ "delete" \notin note.between)
    => ListConsistent

\* a list response with a create committed between its two queries
C10_Witness ==
    /\ resp.op = "list" /\ resp.code = 200
    /\ "insert" \in note.between

====
